---- MODULE Spec2Model ----
(***************************************************************************)
(* PolicyPilot (src/agent.py).  The decision logic of the repository is    *)
(* the phased procedure of POLICY_PILOT_INSTRUCTION: Phase 1 extracts the  *)
(* ISINs of the user's text, Phase 2 researches each ISIN, Phase 3 builds  *)
(* the portfolio (target mix, classify and filter, best-in-class           *)
(* selection, final assembly with gap analysis) and Phase 4 presents it.   *)
(* The model follows the procedure rule by rule.  Where a rule leaves a    *)
(* choice open (the order in which the ISINs are researched, the winner    *)
(* among funds that tie on score and on fees, the risk scores that are     *)
(* incompatible with a profile beyond the one example given) the model     *)
(* takes every outcome the rule allows.                                    *)
(*                                                                         *)
(* Units: returns and volatilities are whole percents, fees are tenths of  *)
(* a percent (25 = 2.5%), allocations are whole percents.                  *)
(***************************************************************************)
EXTENDS Integers, Sequences, FiniteSets, TLC

\* ------------------------------------------------------------------ bounds
MaxWords == 2

\* --------------------------------------------------------- program constants
ISIN_LENGTH == 12
MAX_TER == 25

\* ------------------------------------------------------------------- inputs
AlphaNum ==
  {"A","B","C","D","E","F","G","H","I","J","K","L","M","N","O","P","Q","R",
   "S","T","U","V","W","X","Y","Z","0","1","2","3","4","5","6","7","8","9"}

ISIN_IE == <<"I","E","0","0","B","4","L","5","Y","9","8","3">>
ISIN_LU == <<"L","U","0","5","5","2","3","8","5","2","9","5">>
\* thirteen alphanumeric characters
WordLong == <<"I","E","0","0","B","4","L","5","Y","9","8","3","1">>
\* twelve characters, one of them not alphanumeric
WordDash == <<"I","E","0","0","-","B","4","L","5","Y","9","8">>

Words == {ISIN_IE, ISIN_LU, WordLong, WordDash}

Texts == UNION {[1..n -> Words] : n \in 0..MaxWords}

Profiles == {"Conservative", "Balanced", "Growth", "Aggressive"}

Unresolved == [cat |-> "unresolved"]

EquityFunds ==
  [cat : {"equity"}, rv : {<<8, 10>>, <<6, 5>>, <<12, 10>>, <<-2, 5>>},
   fee : {20, 25, 30}, risk : {"Low"}]
    \cup [cat : {"equity"}, rv : {<<6, 5>>}, fee : {20, 30}, risk : {"High"}]

DefensiveFunds ==
  [cat : {"bond"}, rv : {<<3, 2>>, <<3, 4>>}, fee : {20, 30}, risk : {"Low"}]
    \cup [cat : {"moneymarket"}, rv : {<<1, 2>>}, fee : {20}, risk : {"Low"}]

SpecialtyFunds ==
  [cat : {"crypto"}, rv : {<<12, 10>>}, fee : {20, 30}, risk : {"High"}]

Market == EquityFunds \cup DefensiveFunds \cup SpecialtyFunds

\* The rows of the risk table: the keys incompatible with one profile.  Risk
\* scores are ordinal, so a row is closed upwards; crypto is never compatible
\* with Conservative.
RiskRows(p) ==
  IF p = "Conservative" THEN {{"Crypto"}, {"High", "Crypto"}}
  ELSE {{}, {"Crypto"}, {"High", "Crypto"}}

\* -------------------------------------------------------------------- state
VARIABLES text, profile, incompatible, pc, outcome, isins, metrics, arrived,
          mix, eligible, rejected, winner, result

vars == <<text, profile, incompatible, pc, outcome, isins, metrics, arrived,
          mix, eligible, rejected, winner, result>>

None == "none"
\* the empty slot: no fund
NoFund == <<>>
EmptyInputError == "AskUserToPasteFundList"
PortfolioResult == "PortfolioResult"

\* ------------------------------------------------------- Phase 1: extraction
\* slip: any word of twelve characters is taken for an ISIN
IsTwelveChars(w) == Len(w) = ISIN_LENGTH

IsISIN(w) == Len(w) = ISIN_LENGTH /\ \A k \in 1..Len(w) : w[k] \in AlphaNum

ExtractISINs(t) == {t[k] : k \in {j \in 1..Len(t) : IsISIN(t[j])}}

\* --------------------------------------------------------- Phase 2: research
\* position of the first appearance of word w in the text
FirstPos(w) == CHOOSE k \in 1..Len(text) : text[k] = w /\ \A j \in 1..(k - 1) : text[j] # w

\* the order of first appearance in the text, which the claims call the
\* extraction order (the procedure itself orders the ISINs nowhere)
RECURSIVE FirstSeen(_, _)
FirstSeen(k, acc) ==
  IF k > Len(text) THEN acc
  ELSE FirstSeen(k + 1,
         IF text[k] \in isins /\ \A n \in 1..Len(acc) : acc[n] # text[k]
         THEN Append(acc, text[k]) ELSE acc)

ExtractionOrder == FirstSeen(1, <<>>)

Searched == {arrived[k][1] : k \in 1..Len(arrived)}

\* slip: the k-th answer to arrive is kept under the k-th extracted ISIN
StoreByArrival(mt, i, m) == mt @@ (ExtractionOrder[Len(arrived) + 1] :> m)

\* the data found for an ISIN is kept under that ISIN
Store(mt, i, m) == mt @@ (i :> m)

\* ---------------------------------------------------- Phase 3, step 1: mix
TargetMix ==
  [p \in Profiles |->
     CASE p = "Conservative" -> [Equity |-> 30, Defensive |-> 70]
       [] p = "Balanced"     -> [Equity |-> 60, Defensive |-> 40]
       [] p = "Growth"       -> [Equity |-> 80, Defensive |-> 20]
       [] p = "Aggressive"   -> [Equity |-> 100, Defensive |-> 0]]

SlotNames == {"Equity", "Defensive"}

Slots(m) == {s \in SlotNames : m[s] > 0}

\* ------------------------------------------- Phase 3, step 2: classify, filter
FundClassifier(f) ==
  CASE f.cat = "equity" -> "Equity"
    [] f.cat \in {"bond", "moneymarket"} -> "Defensive"
    [] OTHER -> "Specialty"

\* slip: one search without data discards the whole research
ResolvedAllOrNothing ==
  IF \E i \in isins : metrics[i] = Unresolved THEN {} ELSE isins

Resolved == {i \in isins : metrics[i] # Unresolved}

ClassOf(i) == FundClassifier(metrics[i])

Peers(i) == {j \in Resolved : ClassOf(j) = ClassOf(i)}

OnlyOption(i) == Peers(i) = {i}

\* slip: the fee rule without the only-option exception
FeeRejectedNoException(i) == metrics[i].fee > MAX_TER

FeeRejected(i) == metrics[i].fee > MAX_TER /\ ~OnlyOption(i)

RiskKey(f) == IF f.cat = "crypto" THEN "Crypto" ELSE f.risk

\* slip: the only-option exception extended to the risk rule
RiskRejectedUnlessOnlyOption(i) ==
  RiskKey(metrics[i]) \in incompatible /\ ~OnlyOption(i)

RiskRejected(i) == RiskKey(metrics[i]) \in incompatible

Reasons(i) ==
  (IF FeeRejected(i) THEN {"Fee"} ELSE {}) \cup
  (IF RiskRejected(i) THEN {"Risk"} ELSE {})

EligibilityFilter == {i \in Resolved : Reasons(i) = {}}

\* ------------------------------------------ Phase 3, step 3: best in class
\* slip: every eligible fund is a candidate of every slot
CandidatesAnyClass(s) == eligible

Candidates(s) == {i \in eligible : ClassOf(i) = s}

\* slip: the equity score is the return alone
HigherReturn(a, b) == a.rv[1] > b.rv[1]

\* Sharpe ratio return / volatility, compared without division
\* (volatilities are positive).
SharpeHigher(a, b) == a.rv[1] * b.rv[2] > b.rv[1] * a.rv[2]

Better(s, a, b) ==
  IF s = "Equity" THEN SharpeHigher(a, b) ELSE a.rv[2] < b.rv[2]

TopScore(s) ==
  {i \in Candidates(s) : \A j \in Candidates(s) : ~Better(s, metrics[j], metrics[i])}

BestInClass(s) ==
  {i \in TopScore(s) : \A j \in TopScore(s) : metrics[i].fee <= metrics[j].fee}

\* ------------------------------------------- Phase 3, step 4: final assembly
SlotOrder == <<"Equity", "Defensive">>

\* slip: only a missing Defensive anchor is reported
GapAnalyzerDefensiveOnly(m, w) ==
  SelectSeq(SlotOrder, LAMBDA s : s = "Defensive" /\ s \in Slots(m) /\ w[s] = NoFund)

GapAnalyzer(m, w) ==
  SelectSeq(SlotOrder, LAMBDA s : s \in Slots(m) /\ w[s] = NoFund)

\* slip: the mix is shared out among the filled slots only
AssembleFilledOnly(m, w) ==
  [profile |-> profile,
   rows |-> [s \in Slots(m) |-> [fund |-> w[s],
                                 pct |-> IF w[s] = NoFund THEN 0 ELSE m[s]]],
   gaps |-> GapAnalyzer(m, w),
   eligible |-> eligible]

Assemble(m, w) ==
  [profile |-> profile,
   rows |-> [s \in Slots(m) |-> [fund |-> w[s], pct |-> m[s]]],
   gaps |-> GapAnalyzer(m, w),
   eligible |-> eligible]

\* ------------------------------------------------------------------ actions
Init ==
  /\ text \in Texts
  /\ profile \in Profiles
  /\ incompatible \in RiskRows(profile)
  /\ pc = "Discovery"
  /\ outcome = None
  /\ isins = {}
  /\ metrics = <<>>
  /\ arrived = <<>>
  /\ mix = <<>>
  /\ eligible = {}
  /\ rejected = <<>>
  /\ winner = <<>>
  /\ result = <<>>

\* Phase 1: extract the ISINs; with none found, ask the user for the list.
Extract ==
  /\ pc = "Discovery"
  /\ isins' = ExtractISINs(text)
  /\ IF isins' = {}
       THEN pc' = "Done" /\ outcome' = EmptyInputError
       ELSE pc' = "Research" /\ outcome' = outcome
  /\ UNCHANGED <<text, profile, incompatible, metrics, arrived, mix, eligible,
                 rejected, winner, result>>

\* Phase 2: one search per extracted ISIN, completing in any order; a search
\* that finds no data leaves the ISIN without metrics.  arrived logs the
\* completions, in completion order, as <<ISIN, data found>>.
Lookup(i) ==
  /\ pc = "Research"
  /\ i \in isins \ Searched
  /\ \E m \in Market \cup {Unresolved} :
       /\ metrics' = Store(metrics, i, m)
       /\ arrived' = Append(arrived, <<i, m>>)
  /\ UNCHANGED <<text, profile, incompatible, pc, outcome, isins, mix, eligible,
                 rejected, winner, result>>

\* Phase 3, step 1.
DefineTargetMix ==
  /\ pc = "Research"
  /\ Searched = isins
  /\ mix' = TargetMix[profile]
  /\ pc' = "Filter"
  /\ UNCHANGED <<text, profile, incompatible, outcome, isins, metrics, arrived,
                 eligible, rejected, winner, result>>

\* Phase 3, step 2.
ClassifyAndFilter ==
  /\ pc = "Filter"
  /\ eligible' = EligibilityFilter
  /\ rejected' = [i \in Resolved \ EligibilityFilter |-> Reasons(i)]
  /\ pc' = "Select"
  /\ UNCHANGED <<text, profile, incompatible, outcome, isins, metrics, arrived,
                 mix, winner, result>>

\* Phase 3, step 3.
SelectBestInClass ==
  /\ pc = "Select"
  /\ winner' \in
       {w \in [Slots(mix) -> isins \cup {NoFund}] :
          \A s \in Slots(mix) :
            IF Candidates(s) = {} THEN w[s] = NoFund ELSE w[s] \in BestInClass(s)}
  /\ pc' = "Assemble"
  /\ UNCHANGED <<text, profile, incompatible, outcome, isins, metrics, arrived,
                 mix, eligible, rejected, result>>

\* Phase 3, step 4, and Phase 4.
FinalAssembly ==
  /\ pc = "Assemble"
  /\ result' = Assemble(mix, winner)
  /\ outcome' = PortfolioResult
  /\ pc' = "Done"
  /\ UNCHANGED <<text, profile, incompatible, isins, metrics, arrived, mix,
                 eligible, rejected, winner>>

Next ==
  \/ Extract
  \/ \E i \in Words : Lookup(i)
  \/ DefineTargetMix
  \/ ClassifyAndFilter
  \/ SelectBestInClass
  \/ FinalAssembly

Spec == Init /\ [][Next]_vars

TypeOK ==
  /\ pc \in {"Discovery", "Research", "Filter", "Select", "Assemble", "Done"}
  /\ outcome \in {None, EmptyInputError, PortfolioResult}
  /\ isins \subseteq Words
  /\ eligible \subseteq isins

\* ----------------------------------------------------- vocabulary of the claims
Finished == outcome = PortfolioResult
Filtered == pc \in {"Select", "Assemble", "Done"} /\ isins # {}
Selected == pc \in {"Assemble", "Done"} /\ isins # {}

IsResolved(i) == metrics[i].cat # "unresolved"
Funds == {i \in isins : IsResolved(i)}
SameClass(i, j) == FundClassifier(metrics[i]) = FundClassifier(metrics[j])
\* i is the only fund of its asset class
Sole(i) == \A j \in Funds \ {i} : ~SameClass(i, j)
Incompatible(i) ==
  (IF metrics[i].cat = "crypto" THEN "Crypto" ELSE metrics[i].risk) \in incompatible
FeeRejectedIn(r, i) == i \in DOMAIN r /\ "Fee" \in r[i]
RiskRejectedIn(r, i) == i \in DOMAIN r /\ "Risk" \in r[i]
CandOf(s) == {i \in eligible : FundClassifier(metrics[i]) = s}
\* a scores at least as well as b in slot s
AtLeast(s, a, b) ==
  IF s = "Equity" THEN a.rv[1] * b.rv[2] >= b.rv[1] * a.rv[2]
  ELSE a.rv[2] <= b.rv[2]
Tied(s, a, b) == AtLeast(s, a, b) /\ AtLeast(s, b, a) /\ a.fee = b.fee

\* C3: a fund is rejected by the fee rule only if its fee ratio is above 2.5%
\* and it is not the only fund of its asset class; a fund above 2.5% that is
\* the only one of its class and is risk-compatible is eligible and wins its
\* slot.
C3_FeeRule ==
  Filtered =>
    \A i \in Funds :
      /\ FeeRejectedIn(rejected, i) => (metrics[i].fee > 25 /\ ~Sole(i))
      /\ metrics[i].fee <= 25 => ~FeeRejectedIn(rejected, i)
      /\ (metrics[i].fee > 25 /\ Sole(i) /\ ~Incompatible(i)) =>
           /\ i \in eligible
           /\ (Selected /\ FundClassifier(metrics[i]) \in DOMAIN winner)
                => winner[FundClassifier(metrics[i])] = i

C3_Witness ==
  /\ Selected
  /\ \E i \in Funds :
       /\ metrics[i].fee = 30 /\ Cardinality(Funds) = 2
       /\ FundClassifier(metrics[i]) \in DOMAIN winner
       /\ winner[FundClassifier(metrics[i])] = i

\* C4: a fund whose risk key is incompatible with the profile is rejected for
\* risk, is never eligible and never a slot winner, also when it is the only
\* fund of its class with a fee ratio above 2.5%; crypto is never eligible
\* under Conservative.
C4_RiskNeverWaived ==
  Filtered =>
    \A i \in Funds :
      /\ Incompatible(i) =>
           /\ i \notin eligible
           /\ RiskRejectedIn(rejected, i)
           /\ Selected => \A s \in DOMAIN winner : winner[s] # i
           /\ Finished => (i \notin result.eligible
                           /\ \A s \in DOMAIN result.rows : result.rows[s].fund # i)
      /\ (metrics[i].cat = "crypto" /\ profile = "Conservative") => i \notin eligible

C4_Witness ==
  /\ Finished
  /\ \E i \in Funds :
       /\ Incompatible(i) /\ Sole(i) /\ metrics[i].fee = 30
       /\ FundClassifier(metrics[i]) \in DOMAIN result.rows
       /\ result.rows[FundClassifier(metrics[i])].fund = NoFund

Count(q, x) == Cardinality({k \in 1..Len(q) : q[k] = x})

C6_GapCompleteness ==
  Finished =>
    /\ \A s \in DOMAIN result.rows :
         /\ Count(result.gaps, s) =
              (IF {i \in result.eligible : FundClassifier(metrics[i]) = s} = {}
               THEN 1 ELSE 0)
         /\ (result.rows[s].fund = NoFund) <=>
              ({i \in result.eligible : FundClassifier(metrics[i]) = s} = {})
    /\ \A k \in 1..Len(result.gaps) : result.gaps[k] \in DOMAIN result.rows
    /\ Len(result.gaps) =
         Cardinality({s \in DOMAIN result.rows : result.rows[s].fund = NoFund})

C6_Witness ==
  /\ Finished
  /\ DOMAIN result.rows = {"Equity", "Defensive"}
  /\ result.rows["Equity"].fund = NoFund
  /\ result.rows["Defensive"].fund # NoFund
  /\ result.gaps = <<"Equity">>

\* C8: a text without any 12-character alphanumeric word ends the run with the
\* request for the fund list: no search is made and no portfolio is built.
NoToken == \A k \in 1..Len(text) : text[k] \notin {ISIN_IE, ISIN_LU}

C8_EmptyInput ==
  (NoToken /\ pc # "Discovery") =>
    /\ pc = "Done"
    /\ outcome = EmptyInputError
    /\ arrived = <<>> /\ metrics = <<>>
    /\ result = <<>> /\ winner = <<>>

C8_Witness ==
  /\ outcome = EmptyInputError
  /\ Len(text) = 2
  /\ text[1] = WordDash

\* C9: the target mix of each profile is the fixed table, sums to 100, and
\* every portfolio result carries the table's percentage on each slot whatever
\* the funds; a run that extracted an ISIN never ends without a portfolio.
TablePct(p, s) ==
  CASE p = "Conservative" -> (IF s = "Equity" THEN 30 ELSE 70)
    [] p = "Balanced"     -> (IF s = "Equity" THEN 60 ELSE 40)
    [] p = "Growth"       -> (IF s = "Equity" THEN 80 ELSE 20)
    [] p = "Aggressive"   -> (IF s = "Equity" THEN 100 ELSE 0)

AllocatedPct(s) == IF s \in DOMAIN result.rows THEN result.rows[s].pct ELSE 0

C9_TargetMix ==
  /\ \A p \in Profiles :
       /\ TargetMix[p].Equity = TablePct(p, "Equity")
       /\ TargetMix[p].Defensive = TablePct(p, "Defensive")
       /\ TargetMix[p].Equity + TargetMix[p].Defensive = 100
  /\ Finished =>
       /\ \A s \in {"Equity", "Defensive"} : AllocatedPct(s) = TablePct(profile, s)
       /\ AllocatedPct("Equity") + AllocatedPct("Defensive") = 100
  /\ (pc = "Done" /\ isins # {}) => Finished

C9_Witness ==
  /\ Finished
  /\ profile = "Balanced"
  /\ rejected # <<>>
  /\ result.rows["Defensive"].fund = NoFund
  /\ result.rows["Equity"].fund # NoFund

\* C10: every slot winner is a resolved, eligible fund of the slot's asset
\* class; an identifier without data, a rejected fund or a Specialty fund wins
\* no slot, and no fund wins two slots.
C10_WinnerEligible ==
  Finished =>
    \A s \in DOMAIN result.rows :
      LET w == result.rows[s].fund IN
        w # NoFund =>
          /\ w \in isins /\ IsResolved(w)
          /\ w \in result.eligible
          /\ w \notin DOMAIN rejected
          /\ FundClassifier(metrics[w]) = s
          /\ metrics[w].cat # "crypto"
          /\ \A t \in DOMAIN result.rows \ {s} : result.rows[t].fund # w

C10_Witness ==
  /\ Finished
  /\ \E i \in Funds : metrics[i].cat = "crypto" /\ i \in result.eligible
  /\ \E s \in DOMAIN result.rows : result.rows[s].fund # NoFund
Found(i) == arrived[CHOOSE k \in 1..Len(arrived) : arrived[k][1] = i][2]

SeqFunds == SelectSeq(ExtractionOrder, LAMBDA i : Found(i).cat # "unresolved")

SeqClass(i) ==
  IF Found(i).cat = "equity" THEN "Equity"
  ELSE IF Found(i).cat \in {"bond", "moneymarket"} THEN "Defensive"
  ELSE "Specialty"

SeqEligible ==
  LET f == SeqFunds IN
    SelectSeq(f,
      LAMBDA i :
        /\ ~(Found(i).fee > 25 /\
             \E n \in 1..Len(f) : f[n] # i /\ SeqClass(f[n]) = SeqClass(i))
        /\ (IF Found(i).cat = "crypto" THEN "Crypto" ELSE Found(i).risk)
             \notin incompatible)

Beats(s, a, b) ==
  \/ ~AtLeast(s, b, a)
  \/ (AtLeast(s, a, b) /\ a.fee < b.fee)

\* the winner of slot s among the funds q, taken one after the other: a
\* later fund replaces the best so far only if it beats it
RECURSIVE SeqPick(_, _, _, _)
SeqPick(s, q, k, best) ==
  IF k > Len(q) THEN best
  ELSE SeqPick(s, q, k + 1,
         IF /\ SeqClass(q[k]) = s
            /\ (best = NoFund \/ Beats(s, Found(q[k]), Found(best)))
         THEN q[k] ELSE best)

SeqWinner(s, q) == SeqPick(s, q, 1, NoFund)

SeqGaps(q) ==
  SelectSeq(<<"Equity", "Defensive">>,
    LAMBDA s : TablePct(profile, s) > 0 /\ SeqWinner(s, q) = NoFund)

SeqSet(q) == {q[k] : k \in 1..Len(q)}

====
